---- MODULE Spec2Model ----
(***************************************************************************)
(* A model of the cayley-rust driver: the path compiler of src/src/path.rs *)
(* (vertex!/morphism!/path! and the parse_* functions), the builder-style  *)
(* Vertex of src/src/lib.rs and the Graph of src/src/graph.rs.             *)
(*                                                                         *)
(* Text.  A Rust String is modelled as a sequence of tokens.  Every string *)
(* the code builds is written with the same token alphabet                 *)
(*   g.V(  g.M(  )  "  ,  [  ]  ;  var  =  space  null  - 0..9             *)
(*   .Out( .In( .Both( .Is( .Has( .As( .Back( .Save( .And( .Or(            *)
(*   .Follow( .FollowR( .All() .GetLimit( .ToArray() ...  and name atoms,  *)
(* no token of which is a prefix of another, so two token sequences are    *)
(* equal exactly when the strings they spell are equal.  An identifier is  *)
(* itself a sequence of name atoms; the empty identifier is << >>.         *)
(***************************************************************************)
EXTENDS Integers, Sequences, FiniteSets, TLC

\* ------------------------------------------------------------------ bounds

\* Longest traversal list handed to one compile call.
MaxSteps == 2

\* ------------------------------------------------------------------- text

Q == "\""

Quoted(name) == <<Q>> \o name \o <<Q>>

RECURSIVE connect(_, _)
connect(names, sep) ==
    IF names = << >> THEN << >>
    ELSE IF Len(names) = 1 THEN names[1]
    ELSE names[1] \o sep \o connect(Tail(names), sep)

\* names.connect("\",\"") wrapped in the quotes of the surrounding format!
QuotedList(names) == <<Q>> \o connect(names, <<Q, ",", Q>>) \o <<Q>>

Digit(d) == <<"0", "1", "2", "3", "4", "5", "6", "7", "8", "9">>[d + 1]

RECURSIVE Digits(_)
Digits(n) == IF n < 10 THEN <<Digit(n)>> ELSE Digits(n \div 10) \o <<Digit(n % 10)>>

\* format!("{}", n) of an int
ToDecimal(n) == IF n < 0 THEN <<"-">> \o Digits(-n) ELSE Digits(n)

\* -------------------------------------------------------------- selectors

AnyNode == [k |-> "AnyNode"]
Node(name) == [k |-> "Node", name |-> name]
Nodes(names) == [k |-> "Nodes", names |-> names]

AnyTag == [k |-> "AnyTag"]
Tag(name) == [k |-> "Tag", name |-> name]
Tags(names) == [k |-> "Tags", names |-> names]

AnyPredicate == [k |-> "AnyPredicate"]
Predicate(name) == [k |-> "Predicate", name |-> name]
Predicates(names) == [k |-> "Predicates", names |-> names]
FromRoute(route) == [k |-> "Route", route |-> route]

\* ------------------------------------------------------------- traversals

Out(p, g) == [t |-> "Out", p |-> p, g |-> g]
OutP(p) == [t |-> "OutP", p |-> p]
OutT(g) == [t |-> "OutT", g |-> g]
In(p, g) == [t |-> "In", p |-> p, g |-> g]
InP(p) == [t |-> "InP", p |-> p]
InT(g) == [t |-> "InT", g |-> g]
Both(p, g) == [t |-> "Both", p |-> p, g |-> g]
BothP(p) == [t |-> "BothP", p |-> p]
BothT(g) == [t |-> "BothT", g |-> g]
Is(n) == [t |-> "Is", n |-> n]
Has(p, n) == [t |-> "Has", p |-> p, n |-> n]
TagWith(g) == [t |-> "TagWith", g |-> g]
As(g) == [t |-> "As", g |-> g]
Back(g) == [t |-> "Back", g |-> g]
Save(p, g) == [t |-> "Save", p |-> p, g |-> g]
Intersect(q) == [t |-> "Intersect", q |-> q]
And(q) == [t |-> "And", q |-> q]
Union(q) == [t |-> "Union", q |-> q]
Or(q) == [t |-> "Or", q |-> q]
Follow(r) == [t |-> "Follow", r |-> r]
FollowR(r) == [t |-> "FollowR", r |-> r]

JoinKinds == {"Intersect", "And", "Union", "Or"}
FollowKinds == {"Follow", "FollowR"}

\* ----------------------------------------------------------------- finals

Undefined == [f |-> "Undefined"]
All == [f |-> "All"]
GetLimit(n) == [f |-> "GetLimit", n |-> n]
ToArray == [f |-> "ToArray"]
ToValue == [f |-> "ToValue"]
TagArray == [f |-> "TagArray"]
TagValue == [f |-> "TagValue"]

\* ---------------------------------------------------------------- parsing

parse_start(start) ==
    CASE start.k = "AnyNode" -> <<"g.V(", ")">>
      [] start.k = "Node" -> <<"g.V(">> \o Quoted(start.name) \o <<")">>
      [] start.k = "Nodes" -> <<"g.V(">> \o QuotedList(start.names) \o <<")">>

parse_predicates_and_tags(predicates, tags) ==
    CASE predicates.k = "AnyPredicate" /\ tags.k = "AnyTag" -> << >>
      [] predicates.k = "AnyPredicate" /\ tags.k = "Tag" ->
            <<"null", ",">> \o Quoted(tags.name)
      [] predicates.k = "AnyPredicate" /\ tags.k = "Tags" ->
            <<"null", ",", "[">> \o QuotedList(tags.names) \o <<"]">>
      [] predicates.k = "Predicate" /\ tags.k = "AnyTag" -> Quoted(predicates.name)
      [] predicates.k = "Predicate" /\ tags.k = "Tag" ->
            Quoted(predicates.name) \o <<",">> \o Quoted(tags.name)
      [] predicates.k = "Predicate" /\ tags.k = "Tags" ->
            Quoted(predicates.name) \o <<",", "[">> \o QuotedList(tags.names) \o <<"]">>
      [] predicates.k = "Predicates" /\ tags.k = "AnyTag" ->
            <<"[">> \o QuotedList(predicates.names) \o <<"]">>
      [] predicates.k = "Predicates" /\ tags.k = "Tag" ->
            <<"[">> \o QuotedList(predicates.names) \o <<"]", ",">> \o Quoted(tags.name)
      [] predicates.k = "Predicates" /\ tags.k = "Tags" ->
            <<"[">> \o QuotedList(predicates.names) \o <<"]", ",", "[">>
                \o QuotedList(tags.names) \o <<"]">>
      [] predicates.k = "Route" /\ tags.k = "AnyTag" -> predicates.route.value
      [] predicates.k = "Route" /\ tags.k = "Tag" ->
            predicates.route.value \o <<",", " ">> \o Quoted(tags.name)
      [] predicates.k = "Route" /\ tags.k = "Tags" ->
            predicates.route.value \o <<",", " ", "[">> \o QuotedList(tags.names) \o <<"]">>

parse_predicates_and_nodes(predicates, nodes) ==
    CASE predicates.k = "AnyPredicate" /\ nodes.k = "AnyNode" -> << >>
      [] predicates.k = "AnyPredicate" /\ nodes.k = "Node" ->
            <<"null", ",">> \o Quoted(nodes.name)
      [] predicates.k = "AnyPredicate" /\ nodes.k = "Nodes" ->
            <<"null", ",", "[">> \o QuotedList(nodes.names) \o <<"]">>
      [] predicates.k = "Predicate" /\ nodes.k = "AnyNode" -> Quoted(predicates.name)
      [] predicates.k = "Predicate" /\ nodes.k = "Node" ->
            Quoted(predicates.name) \o <<",">> \o Quoted(nodes.name)
      [] predicates.k = "Predicate" /\ nodes.k = "Nodes" ->
            Quoted(predicates.name) \o <<",", "[">> \o QuotedList(nodes.names) \o <<"]">>
      [] predicates.k = "Predicates" /\ nodes.k = "AnyNode" ->
            <<"[">> \o QuotedList(predicates.names) \o <<"]">>
      [] predicates.k = "Predicates" /\ nodes.k = "Node" ->
            <<"[">> \o QuotedList(predicates.names) \o <<"]", ",">> \o Quoted(nodes.name)
      [] predicates.k = "Predicates" /\ nodes.k = "Nodes" ->
            <<"[">> \o QuotedList(predicates.names) \o <<"]", ",", "[">>
                \o QuotedList(nodes.names) \o <<"]">>
      [] predicates.k = "Route" /\ nodes.k = "AnyNode" -> predicates.route.value
      [] predicates.k = "Route" /\ nodes.k = "Node" ->
            predicates.route.value \o <<",">> \o Quoted(nodes.name)
      [] predicates.k = "Route" /\ nodes.k = "Nodes" ->
            predicates.route.value \o <<",", "[">> \o QuotedList(nodes.names) \o <<"]">>

\* The selector-list argument of Is / As / Back: (), ("a") or ("a","b").
parse_names(open, sel) ==
    CASE sel.k \in {"AnyNode", "AnyTag"} -> <<open, ")">>
      [] sel.k \in {"Node", "Tag"} -> <<open>> \o Quoted(sel.name) \o <<")">>
      [] sel.k \in {"Nodes", "Tags"} -> <<open>> \o QuotedList(sel.names) \o <<")">>

\* A reading of the match that writes each step under its own variant's name.
parse_traversal_by_name(traversal) ==
    LET open == "." \o traversal.t \o "("
        p == IF "p" \in DOMAIN traversal THEN traversal.p ELSE AnyPredicate
        g == IF "g" \in DOMAIN traversal THEN traversal.g ELSE AnyTag
    IN CASE traversal.t \in {"Is"} -> parse_names(open, traversal.n)
         [] traversal.t \in {"TagWith", "As", "Back"} -> parse_names(open, traversal.g)
         [] traversal.t = "Has" ->
                <<open>> \o parse_predicates_and_nodes(traversal.p, traversal.n) \o <<")">>
         [] traversal.t \in JoinKinds -> <<open>> \o traversal.q.value \o <<")">>
         [] traversal.t \in FollowKinds -> <<open>> \o traversal.r.name \o <<")">>
         [] OTHER -> <<open>> \o parse_predicates_and_tags(p, g) \o <<")">>

\* The text one traversal adds to the value: one arm of parse_traversals' match.
parse_traversal(traversal) ==
    CASE traversal.t = "Out" ->
            <<".Out(">> \o parse_predicates_and_tags(traversal.p, traversal.g) \o <<")">>
      [] traversal.t = "OutP" ->
            <<".Out(">> \o parse_predicates_and_tags(traversal.p, AnyTag) \o <<")">>
      [] traversal.t = "OutT" ->
            <<".Out(">> \o parse_predicates_and_tags(AnyPredicate, traversal.g) \o <<")">>
      [] traversal.t = "In" ->
            <<".In(">> \o parse_predicates_and_tags(traversal.p, traversal.g) \o <<")">>
      [] traversal.t = "InP" ->
            <<".In(">> \o parse_predicates_and_tags(traversal.p, AnyTag) \o <<")">>
      [] traversal.t = "InT" ->
            <<".In(">> \o parse_predicates_and_tags(AnyPredicate, traversal.g) \o <<")">>
      [] traversal.t = "Both" ->
            <<".Both(">> \o parse_predicates_and_tags(traversal.p, traversal.g) \o <<")">>
      [] traversal.t = "BothP" ->
            <<".Both(">> \o parse_predicates_and_tags(traversal.p, AnyTag) \o <<")">>
      [] traversal.t = "BothT" ->
            <<".Both(">> \o parse_predicates_and_tags(AnyPredicate, traversal.g) \o <<")">>
      [] traversal.t = "Is" -> parse_names(".Is(", traversal.n)
      [] traversal.t = "Has" ->
            <<".Has(">> \o parse_predicates_and_nodes(traversal.p, traversal.n) \o <<")">>
      [] traversal.t \in {"TagWith", "As"} -> parse_names(".As(", traversal.g)
      [] traversal.t = "Back" -> parse_names(".Back(", traversal.g)
      [] traversal.t = "Save" ->
            <<".Save(">> \o parse_predicates_and_tags(traversal.p, traversal.g) \o <<")">>
      [] traversal.t \in {"Intersect", "And"} -> <<".And(">> \o traversal.q.value \o <<")">>
      [] traversal.t \in {"Union", "Or"} -> <<".Or(">> \o traversal.q.value \o <<")">>
      [] traversal.t = "Follow" -> <<".Follow(">> \o traversal.r.name \o <<")">>
      [] traversal.t = "FollowR" -> <<".FollowR(">> \o traversal.r.name \o <<")">>

\* A reading of the loop that writes the steps last to first.
RECURSIVE parse_traversals_reversed(_)
parse_traversals_reversed(ts) ==
    IF ts = << >> THEN << >>
    ELSE parse_traversals_reversed(Tail(ts)) \o parse_traversal(Head(ts))

RECURSIVE parse_traversals(_)
parse_traversals(traversals) ==
    IF traversals = << >> THEN << >>
    ELSE parse_traversal(Head(traversals)) \o parse_traversals(Tail(traversals))

\* format!("var {name} = {path};", name = reusable.name, path = reusable.value)
declaration(reusable) ==
    <<"var", " ">> \o reusable.name \o <<" ", "=", " ">> \o reusable.value \o <<";">>

\* A reading of the Follow arm that declares the morphism ahead of what it
\* depends on.
prefix_of_decl_first(traversal) ==
    CASE traversal.t \in FollowKinds -> declaration(traversal.r) \o traversal.r.prefix
      [] traversal.t \in JoinKinds -> traversal.q.prefix
      [] OTHER -> << >>

\* What one traversal adds to the prefix: one arm of parse_prefix's match.
prefix_of(traversal) ==
    CASE traversal.t \in FollowKinds -> traversal.r.prefix \o declaration(traversal.r)
      [] traversal.t \in JoinKinds -> traversal.q.prefix
      [] OTHER -> << >>

\* A reading of the loop that puts a joined route's prefix ahead of what the
\* earlier steps have added.
RECURSIVE prepend_prefix(_, _)
prepend_prefix(sofar, ts) ==
    IF ts = << >> THEN sofar
    ELSE IF Head(ts).t \in JoinKinds
         THEN prepend_prefix(prefix_of(Head(ts)) \o sofar, Tail(ts))
         ELSE prepend_prefix(sofar \o prefix_of(Head(ts)), Tail(ts))

parse_prefix_prepend(ts) == prepend_prefix(<< >>, ts)

\* A reading of the loop that leaves out an addition the prefix already holds.
RECURSIVE dedup_prefix(_, _)
dedup_prefix(sofar, ts) ==
    IF ts = << >> THEN sofar
    ELSE IF \E i \in 1..Len(sofar) :
                /\ i + Len(prefix_of(Head(ts))) - 1 <= Len(sofar)
                /\ SubSeq(sofar, i, i + Len(prefix_of(Head(ts))) - 1) = prefix_of(Head(ts))
         THEN dedup_prefix(sofar, Tail(ts))
         ELSE dedup_prefix(sofar \o prefix_of(Head(ts)), Tail(ts))

parse_prefix_dedup(ts) == dedup_prefix(<< >>, ts)

RECURSIVE parse_prefix(_)
parse_prefix(traversals) ==
    IF traversals = << >> THEN << >>
    ELSE prefix_of(Head(traversals)) \o parse_prefix(Tail(traversals))

\* A reading of parse_final that ends a limited query with All as well.
parse_final_limit_all(final) ==
    CASE final.f = "Undefined" -> << >>
      [] final.f = "GetLimit" -> <<".GetLimit(">> \o ToDecimal(final.n) \o <<")", ".All()">>
      [] OTHER -> <<"." \o final.f \o "()">>

parse_final(final) ==
    CASE final.f = "Undefined" -> << >>
      [] final.f = "All" -> <<".All()">>
      [] final.f = "GetLimit" -> <<".GetLimit(">> \o ToDecimal(final.n) \o <<")">>
      [] final.f = "ToArray" -> <<".ToArray()">>
      [] final.f = "ToValue" -> <<".ToValue()">>
      [] final.f = "TagArray" -> <<".TagArray()">>
      [] final.f = "TagValue" -> <<".TagValue()">>

\* ------------------------------------------------------- Option<T> values

Some(v) == [some |-> TRUE, val |-> v]
None == [some |-> FALSE]

\* ---------------------------------------------- Trail, Morphism and Vertex

\* Path for Trail: compile_path (what path![..] calls)
compile_path(traversals) ==
    Some([prefix |-> parse_prefix(traversals), value |-> parse_traversals(traversals)])

\* A reading of compile_reuse that finishes the morphism like a query.
compile_reuse_as_query(name, traversals) ==
    Some([name |-> name,
          prefix |-> parse_prefix(traversals),
          value |-> <<"g.M(", ")">> \o parse_traversals(traversals) \o <<".All()">>,
          expectation |-> "NodeSequence"])

\* Add<CompiledPath, CompiledRoute> for CompiledRoute: route + path
add(self, rhs) ==
    [prefix |-> rhs.prefix \o self.prefix, value |-> self.value \o rhs.value]

\* Reuse for Morphism: compile_reuse (what morphism![..] calls)
compile_reuse(name, traversals) ==
    Some([name |-> name,
          prefix |-> parse_prefix(traversals),
          value |-> <<"g.M(", ")">> \o parse_traversals(traversals)])

\* A reading of compile_route that finishes the route as a query of all nodes.
compile_route_finalized(start, traversals) ==
    Some([prefix |-> parse_prefix(traversals),
          value |-> parse_start(start) \o parse_traversals(traversals) \o <<".All()">>])

\* Route for Vertex: compile_route (what vertex![..] without a Final calls)
compile_route(start, traversals) ==
    Some([prefix |-> parse_prefix(traversals),
          value |-> parse_start(start) \o parse_traversals(traversals)])

\* A reading of the match with the two name finals exchanged.
expectation_of_swapped(final) ==
    CASE final.f = "Undefined" -> "Unknown"
      [] final.f = "All" -> "NodeSequence"
      [] final.f = "GetLimit" -> "NodeSequence"
      [] final.f = "ToArray" -> "SingleNode"
      [] final.f = "ToValue" -> "NameSequence"
      [] final.f = "TagArray" -> "TagSequence"
      [] final.f = "TagValue" -> "SingleTag"

\* The expectation arm of compile_query's result.
expectation_of(final) ==
    CASE final.f = "Undefined" -> "Unknown"
      [] final.f = "All" -> "NodeSequence"
      [] final.f = "GetLimit" -> "NodeSequence"
      [] final.f = "ToArray" -> "NameSequence"
      [] final.f = "ToValue" -> "SingleNode"
      [] final.f = "TagArray" -> "TagSequence"
      [] final.f = "TagValue" -> "SingleTag"

\* A reading of compile_query that refuses a limit that is not positive.
compile_query_checked(start, ts, final) ==
    IF final.f = "GetLimit" /\ final.n <= 0 THEN None
    ELSE Some([prefix |-> parse_prefix(ts),
               value |-> parse_start(start) \o parse_traversals(ts) \o parse_final(final),
               expectation |-> expectation_of(final)])

\* Query for Vertex: compile_query (what vertex![.. => Final] calls)
compile_query(start, traversals, final) ==
    Some([prefix |-> parse_prefix(traversals),
          value |-> parse_start(start) \o parse_traversals(traversals)
                        \o (IF final.f = "Undefined" THEN << >> ELSE parse_final(final)),
          expectation |-> expectation_of(final)])

\* The macros' match: Some(v) => v (None panics, which no compile_* returns).
unwrap(option) == option.val

\* ------------------------------------- compiled values a caller may hold
\* The values of tests/path_compile.rs that later steps refer to.

follows == <<"follows">>
status == <<"status">>
cool_person == <<"cool_person">>

friendOfFriend ==
    unwrap(compile_reuse(<<"friendOfFriend">>,
                         <<Out(Predicate(follows), AnyTag), Out(Predicate(follows), AnyTag)>>))

m_1 ==
    unwrap(compile_reuse(<<"m1">>,
                         <<Out(Predicate(follows), AnyTag), Out(Predicate(follows), AnyTag)>>))

m_2 ==
    unwrap(compile_reuse(<<"m2">>,
                         <<Has(Predicate(status), Node(cool_person)), FollowR(m_1)>>))

v_1 ==
    unwrap(compile_route(AnyNode,
                         <<Out(Predicate(follows), AnyTag), In(Predicate(follows), AnyTag)>>))

c_fof ==
    unwrap(compile_route(Node(<<"C">>),
                         <<Follow(friendOfFriend),
                           Has(Predicate(status), Node(cool_person))>>))

Reusables == {m_1, m_2}
Routes == {v_1, c_fof}

\* ------------------------------------------------- inputs of compile calls

Starts == {AnyNode, Node(<<"foo">>)}

MorphismNames == {<<"m1">>, <<"m3">>}

LimitValues == {-1, 0, 5, 10}

Finals ==
    {Undefined, All, ToArray, ToValue, TagArray, TagValue}
        \cup {GetLimit(n) : n \in LimitValues}

Steps ==
    {Out(Predicate(follows), AnyTag), Has(Predicate(status), Node(cool_person))}
        \cup {Follow(m) : m \in Reusables} \cup {FollowR(m) : m \in Reusables}
        \cup {Intersect(r) : r \in Routes} \cup {And(r) : r \in Routes}
        \cup {Union(r) : r \in Routes} \cup {Or(r) : r \in Routes}
        \cup {Out(FromRoute(r), Tag(<<"pred">>)) : r \in Routes}
        \cup {Has(FromRoute(r), AnyNode) : r \in Routes}

SeqsUpTo(S, n) == UNION {[1..k -> S] : k \in 0..n}

TraversalLists == SeqsUpTo(Steps, MaxSteps)

\* ================================================ the builder of lib.rs

EveryNode == [k |-> "EveryNode"]
EveryPredicate == [k |-> "EveryPredicate"]
EveryTag == [k |-> "EveryTag"]
FromQuery(query) == [k |-> "FromQuery", query |-> query]

\* A reading of compile that joins the path whether or not it is ready.
vertex_compile_always(vertex) == Some(connect(vertex.path, <<".">>))

\* Query for Vertex: compile, on a Vertex { ready, path }
vertex_compile(vertex) ==
    IF vertex.ready THEN Some(connect(vertex.path, <<".">>)) ELSE None

\* match query.compile() { Some(compiled) => compiled, None => "undefined" }
compiled_or_undefined(query) ==
    IF vertex_compile(query).some THEN vertex_compile(query).val ELSE <<"undefined">>

make_args_from(predicates, tags) ==
    CASE predicates.k = "EveryPredicate" /\ tags.k = "EveryTag" -> << >>
      [] predicates.k = "EveryPredicate" /\ tags.k = "Tag" ->
            <<"null", ",", " ">> \o Quoted(tags.name)
      [] predicates.k = "EveryPredicate" /\ tags.k = "Tags" ->
            <<"null", ",", " ">> \o QuotedList(tags.names)
      [] predicates.k = "Predicate" /\ tags.k = "EveryTag" -> Quoted(predicates.name)
      [] predicates.k = "Predicate" /\ tags.k = "Tag" ->
            Quoted(predicates.name) \o <<",", " ">> \o Quoted(tags.name)
      [] predicates.k = "Predicate" /\ tags.k = "Tags" ->
            Quoted(predicates.name) \o <<",", " ">> \o QuotedList(tags.names)
      [] predicates.k = "Predicates" /\ tags.k = "EveryTag" ->
            QuotedList(predicates.names)
      [] predicates.k = "Predicates" /\ tags.k = "Tag" ->
            QuotedList(predicates.names) \o <<",", " ">> \o Quoted(tags.name)
      [] predicates.k = "Predicates" /\ tags.k = "Tags" ->
            QuotedList(predicates.names) \o <<",", " ">> \o QuotedList(tags.names)
      [] predicates.k = "FromQuery" /\ tags.k = "EveryTag" ->
            compiled_or_undefined(predicates.query)
      [] predicates.k = "FromQuery" /\ tags.k = "Tag" ->
            compiled_or_undefined(predicates.query) \o <<",", " ">> \o Quoted(tags.name)
      [] predicates.k = "FromQuery" /\ tags.k = "Tags" ->
            compiled_or_undefined(predicates.query) \o <<",", " ">>
                \o QuotedList(tags.names)

\* AddString for Vertex: add_str / add_string
add_string(vertex, str) == [vertex EXCEPT !.path = Append(@, str)]

\* Vertex::start
vertex_start(nodes) ==
    add_string(
        add_string([ready |-> FALSE, path |-> << >>], <<"graph">>),
        CASE nodes.k = "EveryNode" -> <<"Vertex(", ")">>
          [] nodes.k = "Node" -> <<"Vertex(">> \o Quoted(nodes.name) \o <<")">>
          [] nodes.k = "Nodes" ->
                <<"Vertex(", Q>> \o connect(nodes.names, <<",">>) \o <<Q, ")">>)

\* Path::out
vertex_out(vertex, predicates, tags) ==
    add_string(vertex, <<"Out(">> \o make_args_from(predicates, tags) \o <<")">>)

\* Query::all
vertex_all(vertex) == add_string([vertex EXCEPT !.ready = TRUE], <<"All()">>)

\* Longest path vector a builder is grown to.
MaxPath == 4

\* Compile calls made on one builder.
MaxCompiles == 2

BuilderNodes == {EveryNode, Node(<<"Foo">>), Nodes(<<<<"foo">>, <<"bar">>>>)}

\* A finished and an unfinished query to draw a predicate from.
InnerQueries == {vertex_all(vertex_start(Node(<<"status">>))), vertex_start(EveryNode)}

BuilderPredicates ==
    {EveryPredicate, Predicate(follows)} \cup {FromQuery(q) : q \in InnerQueries}

BuilderTags == {EveryTag, Tag(<<"next">>)}

\* ================================================= the Graph of graph.rs

\* A GraphResult: Ok(value) or Err(error); Pending while a call is under way.
Ok(v) == [st |-> "ok", val |-> v]
Err(e) == [st |-> "err", err |-> e]
Pending == [st |-> "pending"]
NotCalled == [st |-> "none"]

QueryNotFinalized == [e |-> "QueryNotFinalized"]
QueryCompilationFailed == [e |-> "QueryCompilationFailed"]
ResponseParseFailed == [e |-> "ResponseParseFailed"]
InvalidUrl(url) == [e |-> "InvalidUrl", url |-> url]
MalformedRequest(url) == [e |-> "MalformedRequest", url |-> url]
RequestFailed(body) == [e |-> "RequestFailed", body |-> body]
DecodingFailed(text) == [e |-> "DecodingFailed", text |-> text]
ReusableCannotBeSaved == [e |-> "ReusableCannotBeSaved"]
ExpectationNotSupported(expectation) ==
    [e |-> "ExpectationNotSupported", expectation |-> expectation]

\* Graph::new: the address is formatted and kept, nothing is parsed here.
Graph_new(host, port) == Ok([host |-> host, port |-> port, version |-> "v1"])

\* Url::parse of the kept address: the host must be one and the port a u16.
WellFormedHosts == {<<"localhost">>}
MaxPort == 2^16 - 1
url_parses(url) == url.host \in WellFormedHosts /\ url.port \in 0..MaxPort

\* A Vertex handed to find: Vertex(start, traversals, final).
Vertex(start, ts, final) == [start |-> start, traversals |-> ts, final |-> final]

\* Query::is_finalized: a Final has been applied.
is_finalized(query) == query.final.f # "Undefined"

\* Query::compile: the text that is sent, the prefix followed by the value.
query_compile(query) ==
    LET compiled == compile_query(query.start, query.traversals, query.final)
    IN IF compiled.some THEN Some(compiled.val.prefix \o compiled.val.value) ELSE None

\* A reading of find that sends whatever the query compiles to.
find_unchecked(query) ==
    IF query_compile(query).some
    THEN Ok(query_compile(query).val)
    ELSE Err(QueryCompilationFailed)

\* Graph::find up to the request: the text to send, or the error returned.
find(query) ==
    IF is_finalized(query)
    THEN IF query_compile(query).some
         THEN Ok(query_compile(query).val)
         ELSE Err(QueryCompilationFailed)
    ELSE Err(QueryNotFinalized)

\* Graph::prepare_request; writer_ok: whether RequestWriter::new succeeds.
prepare_request(url, writer_ok) ==
    IF ~url_parses(url) THEN Err(InvalidUrl(url))
    ELSE IF ~writer_ok THEN Err(MalformedRequest(url))
    ELSE Ok(url)

\* Responses: bytes that are UTF-8 or not, spelling a JSON document or not.
Absent == [j |-> "absent"]
Null == [j |-> "null"]
JString(str) == [j |-> "string", s |-> str]
JNumber(n) == [j |-> "number", n |-> n]
JArray(items) == [j |-> "array", items |-> items]
JMap(fields) == [j |-> "object", fields |-> fields]
Envelope(res, error) == [j |-> "envelope", result |-> res, error |-> error]
Malformed == [j |-> "malformed"]

Bytes(utf8, doc) == [utf8 |-> utf8, doc |-> doc]

\* Decodable for GraphNode: a map of strings to strings
decode_node(item) ==
    IF item.j = "object" /\ \A key \in DOMAIN item.fields : item.fields[key].j = "string"
    THEN Ok([key \in DOMAIN item.fields |-> item.fields[key].s])
    ELSE Err("ExpectedError")

RECURSIVE decode_seq(_)
decode_seq(items) ==
    IF items = << >> THEN Ok(<< >>)
    ELSE LET node == decode_node(Head(items))
             rest == decode_seq(Tail(items))
         IN IF node.st = "err" THEN node
            ELSE IF rest.st = "err" THEN rest
            ELSE Ok(<<node.val>> \o rest.val)

\* A reading of the decoder that reads the "result" field as a sequence at once.
decode_graph_nodes_strict(doc) ==
    IF doc.j # "envelope" THEN Err("ParseError")
    ELSE IF doc.result.j = "array" THEN decode_seq(doc.result.items)
    ELSE Err("ExpectedError")

\* Decodable for GraphNodes: the "result" field, read as an option of a sequence
decode_graph_nodes(doc) ==
    IF doc.j # "envelope" THEN Err("ParseError")
    ELSE IF doc.result.j \in {"absent", "null"} THEN Ok(<< >>)
    ELSE IF doc.result.j = "array" THEN decode_seq(doc.result.items)
    ELSE Err("ExpectedError")

\* A reading of decode_nodes that decodes whatever text the bytes can be read as.
decode_nodes_lossy(source) ==
    IF decode_graph_nodes(source.doc).st = "err" THEN Err(DecodingFailed(source.doc))
    ELSE Ok(decode_graph_nodes(source.doc).val)

\* Graph::decode_nodes: what it calls, in order
decode_stages(source) ==
    IF source.utf8 THEN <<"decode_nodes", "from_utf8", "json_decode">>
    ELSE <<"decode_nodes", "from_utf8">>

\* Graph::decode_nodes
decode_nodes(source) ==
    IF ~source.utf8 THEN Err(ResponseParseFailed)
    ELSE IF decode_graph_nodes(source.doc).st = "err" THEN Err(DecodingFailed(source.doc))
    ELSE Ok(decode_graph_nodes(source.doc).val)

Hosts == {<<"localhost">>, <<"local host">>}
Ports == {0, 64210, 65536}

QueryTraversals ==
    {<< >>, <<Out(Predicate(follows), AnyTag)>>, <<Follow(m_1), Is(Node(<<"B">>))>>}

Queries ==
    {Vertex(start, ts, final) : start \in Starts, ts \in QueryTraversals, final \in Finals}

RawQueries == {<<"g.V(", ")", ".All()">>, <<"g.M(", ")">>}

NodeA == JMap([id |-> JString("A")])
NodeB == JMap([id |-> JString("B"), name |-> JString("b")])

Responses ==
    {Bytes(FALSE, Malformed),
     Bytes(FALSE, Envelope(JArray(<<NodeA>>), Absent)),
     Bytes(TRUE, Malformed),
     Bytes(TRUE, Envelope(Absent, Absent)),
     Bytes(TRUE, Envelope(Null, Absent)),
     Bytes(TRUE, Envelope(JArray(<< >>), Absent)),
     Bytes(TRUE, Envelope(JArray(<<NodeA, NodeB>>), Absent)),
     Bytes(TRUE, Envelope(JArray(<<NodeB, NodeA>>), Null)),
     Bytes(TRUE, Envelope(JArray(<<NodeA>>), JString("boom"))),
     Bytes(TRUE, Envelope(Null, JString("boom"))),
     Bytes(TRUE, Envelope(Absent, JString("boom"))),
     Bytes(TRUE, Envelope(JArray(<<JString("A")>>), Absent)),
     Bytes(TRUE, Envelope(JArray(<<NodeA, JMap([id |-> JNumber(7)])>>), Absent)),
     Bytes(TRUE, Envelope(JString("A"), Absent))}

\* Calls made on one Graph.
MaxCalls == 2

\* A Morphism handed to save: Morphism(name, traversals).
Morphism(name, ts) == [name |-> name, traversals |-> ts]

\* No save call was made yet.
NoReuse == Morphism(<< >>, << >>)

\* The statement that stores a Reuse under a name: var name = g.M()...;
\* after the declarations its own steps need.
save_query(name, morphism) ==
    LET reuse == unwrap(compile_reuse(name, morphism.traversals))
    IN reuse.prefix \o declaration(reuse)

\* Reuse::save; yields: whether the implementor has a save query to give.
reuse_save(morphism, yields) ==
    IF yields THEN Some(save_query(morphism.name, morphism)) ELSE None

\* Reuse::save_as(name)
reuse_save_as(name, morphism, yields) ==
    IF yields THEN Some(save_query(name, morphism)) ELSE None

\* Reuse::set_saved
set_saved(flags, morphism) == flags \cup {morphism}

\* The steps of the Morphism that the calls of one run are made with.
MorphismBodies ==
    {<<Out(Predicate(follows), AnyTag)>>,
     <<Out(Predicate(follows), AnyTag), In(Predicate(follows), AnyTag)>>,
     <<Has(Predicate(status), Node(cool_person)), FollowR(m_1)>>}

\* ------------------------------------------------------------------ state

VARIABLES
    traversals, \* the boxed traversal list the caller has built
    call,       \* the last compile call on it: the constructor and its arguments
    result,     \* what that call returned
    vertex,     \* the builder of lib.rs: [ready, path]
    compiled,   \* what the compile calls on the builder returned, in order
    graph,      \* the Graph: its address
    method,     \* the Graph method under way or returned last
    query,      \* the Vertex that find was called with
    body,       \* the text of the request
    pc,         \* where the call stands: idle, or the stage due next
    trace,      \* the stages the call has run, in order
    response,   \* the bytes the service answered the call with, if it did
    requests,   \* how many requests this Graph has written to the service
    calls,      \* how many calls were made on this Graph
    outcome,    \* the GraphResult of the call
    reusable,   \* the Reuse that save or save_as was called with
    saved       \* which Reuse instances have had set_saved called, by name

compilerVars == <<traversals, call, result>>
builderVars == <<vertex, compiled>>
graphVars ==
    <<graph, method, query, body, pc, trace, response, requests, calls, outcome, reusable,
      saved>>
vars ==
    <<traversals, call, result, vertex, compiled, graph, method, query, body, pc, trace,
      response, requests, calls, outcome, reusable, saved>>

NoCall == [op |-> "none"]

CompilerIdle ==
    /\ traversals = << >>
    /\ call = NoCall
    /\ result = None

BuilderIdle ==
    /\ vertex = vertex_start(EveryNode)
    /\ compiled = << >>

GraphIdle ==
    /\ graph = Graph_new(<<"localhost">>, 64210).val
    /\ method = "none"
    /\ query = Vertex(AnyNode, << >>, Undefined)
    /\ body = << >>
    /\ pc = "idle"
    /\ trace = << >>
    /\ response = None
    /\ requests = 0
    /\ calls = 0
    /\ outcome = NotCalled
    /\ reusable = NoReuse
    /\ saved = {}

\* ---------------------------------------------------- the compiler's calls

Init ==
    /\ traversals \in TraversalLists
    /\ call = NoCall
    /\ result = None
    /\ BuilderIdle
    /\ GraphIdle

\* morphism![ name -> traversals ]
CompileReuse(name) ==
    /\ call' = [op |-> "compile_reuse", name |-> name]
    /\ result' = compile_reuse(name, traversals)
    /\ UNCHANGED <<traversals, builderVars, graphVars>>

\* vertex![ start -> traversals ]
CompileRoute(start) ==
    /\ call' = [op |-> "compile_route", start |-> start]
    /\ result' = compile_route(start, traversals)
    /\ UNCHANGED <<traversals, builderVars, graphVars>>

\* vertex![ start -> traversals => final ]
CompileQuery(start, final) ==
    /\ call' = [op |-> "compile_query", start |-> start, final |-> final]
    /\ result' = compile_query(start, traversals, final)
    /\ UNCHANGED <<traversals, builderVars, graphVars>>

Next ==
    \/ \E name \in MorphismNames : CompileReuse(name)
    \/ \E start \in Starts : CompileRoute(start)
    \/ \E start \in Starts, final \in Finals : CompileQuery(start, final)

Spec == Init /\ [][Next]_vars

\* ------------------------------------------- the compiler's calls, on lists

\* Longest list of names given to Nodes, Tags or Predicates.
MaxNames == 2

\* Identifiers, the empty one among them.
Names == {<<"foo">>, <<"bar">>, << >>}

NameLists == SeqsUpTo(Names, MaxNames)

NodeSelectors ==
    {AnyNode} \cup {Node(name) : name \in Names} \cup {Nodes(names) : names \in NameLists}

TagSelectors ==
    {AnyTag} \cup {Tag(name) : name \in Names} \cup {Tags(names) : names \in NameLists}

PredicateSelectors ==
    {AnyPredicate} \cup {Predicate(name) : name \in Names}
        \cup {Predicates(names) : names \in NameLists}

SelectorSteps ==
    {Is(nodes) : nodes \in NodeSelectors}
        \cup {As(tags) : tags \in TagSelectors}
        \cup {Back(tags) : tags \in TagSelectors}
        \cup {OutP(predicates) : predicates \in PredicateSelectors}
        \cup {InT(tags) : tags \in TagSelectors}
        \cup {Save(predicates, Tag(<<"foo">>)) : predicates \in PredicateSelectors}
        \cup {Has(predicates, AnyNode) : predicates \in PredicateSelectors}
        \cup {Has(AnyPredicate, nodes) : nodes \in NodeSelectors}

InitSelectors ==
    /\ traversals \in SeqsUpTo(SelectorSteps, 1)
    /\ call = NoCall
    /\ result = None
    /\ BuilderIdle
    /\ GraphIdle

NextSelectors ==
    \/ \E start \in NodeSelectors : CompileRoute(start)
    \/ \E start \in NodeSelectors : CompileQuery(start, All)

SpecSelectors == InitSelectors /\ [][NextSelectors]_vars

\* ------------------------------ the shorter forms, the aliases and '+'

\* One-argument steps, both names of each join and of As, and steps that
\* bring a prefix.
FormSteps ==
    {OutP(Predicate(follows)), OutT(Tag(<<"next">>)),
     InP(Predicates(<<follows, status>>)), InT(Tags(<<<<"a">>, <<"b">>>>)),
     BothP(AnyPredicate), BothT(AnyTag),
     TagWith(Tag(<<"next">>)), As(Tags(<<<<"a">>, <<"b">>>>)),
     Intersect(c_fof), And(v_1), Union(v_1), Or(c_fof),
     Follow(m_1), FollowR(m_2)}

InitForms ==
    /\ traversals \in SeqsUpTo(FormSteps, MaxSteps)
    /\ call = NoCall
    /\ result = None
    /\ BuilderIdle
    /\ GraphIdle

\* path![ traversals ]
CompilePath ==
    /\ call' = [op |-> "compile_path"]
    /\ result' = compile_path(traversals)
    /\ UNCHANGED <<traversals, builderVars, graphVars>>

\* vertex![ start -> the first split traversals ] + path![ the others ]
AddPath(start, split) ==
    /\ split <= Len(traversals)
    /\ call' = [op |-> "add", start |-> start, split |-> split]
    /\ result' =
            Some(add(unwrap(compile_route(start, SubSeq(traversals, 1, split))),
                     unwrap(compile_path(SubSeq(traversals, split + 1, Len(traversals))))))
    /\ UNCHANGED <<traversals, builderVars, graphVars>>

NextForms ==
    \/ \E name \in MorphismNames : CompileReuse(name)
    \/ \E start \in Starts : CompileRoute(start)
    \/ \E start \in Starts, final \in {Undefined, All, GetLimit(5)} : CompileQuery(start, final)
    \/ CompilePath
    \/ \E start \in Starts, split \in 0..MaxSteps : AddPath(start, split)

SpecForms == InitForms /\ [][NextForms]_vars

\* ----------------------------------------------------- the builder's calls

InitBuilder ==
    /\ vertex \in {vertex_start(nodes) : nodes \in BuilderNodes}
    /\ compiled = << >>
    /\ CompilerIdle
    /\ GraphIdle

\* vertex.out(predicates, tags)
VertexOut(predicates, tags) ==
    /\ Len(vertex.path) < MaxPath
    /\ vertex' = vertex_out(vertex, predicates, tags)
    /\ UNCHANGED <<compiled, compilerVars, graphVars>>

\* vertex.all()
VertexAll ==
    /\ Len(vertex.path) < MaxPath
    /\ vertex' = vertex_all(vertex)
    /\ UNCHANGED <<compiled, compilerVars, graphVars>>

\* A reading of compile that takes the strings out of the path as it joins them.
VertexCompileDraining ==
    /\ Len(compiled) < MaxCompiles
    /\ compiled' = Append(compiled, vertex_compile(vertex))
    /\ vertex' = [vertex EXCEPT !.path = << >>]
    /\ UNCHANGED <<compilerVars, graphVars>>

\* vertex.compile(), on &self
VertexCompile ==
    /\ Len(compiled) < MaxCompiles
    /\ compiled' = Append(compiled, vertex_compile(vertex))
    /\ UNCHANGED <<vertex, compilerVars, graphVars>>

NextBuilder ==
    \/ \E predicates \in BuilderPredicates, tags \in BuilderTags :
            VertexOut(predicates, tags)
    \/ VertexAll
    \/ VertexCompile

SpecBuilder == InitBuilder /\ [][NextBuilder]_vars

\* ------------------------------------------------------- the Graph's calls

InitGraph ==
    /\ graph \in {Graph_new(host, port).val : host \in Hosts, port \in Ports}
    /\ method = "none"
    /\ query = Vertex(AnyNode, << >>, Undefined)
    /\ body = << >>
    /\ pc = "idle"
    /\ trace = << >>
    /\ response = None
    /\ requests = 0
    /\ calls = 0
    /\ outcome = NotCalled
    /\ reusable = NoReuse
    /\ saved = {}
    /\ CompilerIdle
    /\ BuilderIdle

\* The call returns value to its caller.
Return(value) ==
    /\ pc' = "idle"
    /\ outcome' = value

\* graph.find(&query), up to the request
Find(q) ==
    /\ pc = "idle"
    /\ calls < MaxCalls
    /\ calls' = calls + 1
    /\ method' = "find"
    /\ query' = q
    /\ trace' = << >>
    /\ response' = None
    /\ IF find(q).st = "ok"
       THEN /\ body' = find(q).val
            /\ pc' = "prepare_request"
            /\ outcome' = Pending
       ELSE /\ body' = << >>
            /\ Return(find(q))
    /\ UNCHANGED <<graph, reusable, saved, requests, compilerVars, builderVars>>

\* graph.exec(text), up to the request
Exec(text) ==
    /\ pc = "idle"
    /\ calls < MaxCalls
    /\ calls' = calls + 1
    /\ method' = "exec"
    /\ body' = text
    /\ trace' = << >>
    /\ response' = None
    /\ pc' = "prepare_request"
    /\ outcome' = Pending
    /\ UNCHANGED <<graph, reusable, saved, query, requests, compilerVars, builderVars>>

\* A reading of perform_request that goes on to write whatever the
\* preparation gave.
PrepareRequestSkipping(writer_ok) ==
    /\ pc = "prepare_request"
    /\ trace' = Append(trace, "prepare_request")
    /\ pc' = "write_str"
    /\ UNCHANGED <<graph, reusable, saved, method, query, body, response, requests,
                   calls, outcome, compilerVars, builderVars>>

\* perform_request: Graph::prepare_request(self.url)
PrepareRequest(writer_ok) ==
    /\ pc = "prepare_request"
    /\ trace' = Append(trace, "prepare_request")
    /\ IF prepare_request(graph, writer_ok).st = "ok"
       THEN pc' = "write_str" /\ UNCHANGED outcome
       ELSE Return(prepare_request(graph, writer_ok))
    /\ UNCHANGED <<graph, reusable, saved, method, query, body, response, requests,
                   calls, compilerVars, builderVars>>

\* A reading of perform_request that writes again after a failed write.
WriteStrRetrying(ok) ==
    /\ pc = "write_str"
    /\ trace' = Append(trace, "write_str")
    /\ requests' = requests + 1
    /\ pc' = IF ok THEN "read_response" ELSE "write_str"
    /\ UNCHANGED <<graph, reusable, saved, method, query, body, response, calls, outcome,
                   compilerVars, builderVars>>

\* perform_request: request.write_str(body), which sends the request
WriteStr(ok) ==
    /\ pc = "write_str"
    /\ trace' = Append(trace, "write_str")
    /\ requests' = requests + 1
    /\ IF ok
       THEN pc' = "read_response" /\ UNCHANGED outcome
       ELSE Return(Err(RequestFailed(body)))
    /\ UNCHANGED <<graph, reusable, saved, method, query, body, response, calls,
                   compilerVars, builderVars>>

\* perform_request: request.read_response()
ReadResponse(ok) ==
    /\ pc = "read_response"
    /\ trace' = Append(trace, "read_response")
    /\ IF ok
       THEN pc' = "read_to_end" /\ UNCHANGED outcome
       ELSE Return(Err(RequestFailed(body)))
    /\ UNCHANGED <<graph, reusable, saved, method, query, body, response, requests,
                   calls, compilerVars, builderVars>>

\* A reading of save that marks the reusable whatever the request came to.
SaveFailsMarking ==
    /\ pc = "read_to_end"
    /\ trace' = Append(trace, "read_to_end")
    /\ saved' = IF method \in {"save", "save_as"} THEN set_saved(saved, reusable) ELSE saved
    /\ Return(Err(RequestFailed(body)))
    /\ UNCHANGED <<graph, reusable, method, query, body, response, requests, calls,
                   compilerVars, builderVars>>

\* perform_request: response.read_to_end() fails
ReadToEndFails ==
    /\ pc = "read_to_end"
    /\ trace' = Append(trace, "read_to_end")
    /\ Return(Err(RequestFailed(body)))
    /\ UNCHANGED <<graph, reusable, saved, method, query, body, response, requests,
                   calls, compilerVars, builderVars>>

\* perform_request: response.read_to_end() gives the bytes, which exec decodes
ReadToEnd(response_body) ==
    /\ pc = "read_to_end"
    /\ method \in {"find", "exec"}
    /\ trace' = trace \o <<"read_to_end">> \o decode_stages(response_body)
    /\ response' = Some(response_body)
    /\ Return(decode_nodes(response_body))
    /\ UNCHANGED <<graph, reusable, saved, method, query, body, requests, calls,
                   compilerVars, builderVars>>

NextGraph ==
    \/ \E q \in Queries : Find(q)
    \/ \E text \in RawQueries : Exec(text)
    \/ \E writer_ok \in BOOLEAN : PrepareRequest(writer_ok)
    \/ \E ok \in BOOLEAN : WriteStr(ok)
    \/ \E ok \in BOOLEAN : ReadResponse(ok)
    \/ ReadToEndFails
    \/ \E response_body \in Responses : ReadToEnd(response_body)

SpecGraph == InitGraph /\ [][NextGraph]_vars

\* ------------------------------------------------- saving a Morphism

InitSave ==
    /\ traversals \in MorphismBodies
    /\ call = NoCall
    /\ result = None
    /\ BuilderIdle
    /\ graph \in {Graph_new(host, 64210).val : host \in Hosts}
    /\ method = "none"
    /\ query = Vertex(AnyNode, << >>, Undefined)
    /\ body = << >>
    /\ pc = "idle"
    /\ trace = << >>
    /\ response = None
    /\ requests = 0
    /\ calls = 0
    /\ outcome = NotCalled
    /\ reusable = NoReuse
    /\ saved = {}

\* graph.save(&mut reusable) and graph.save_as(name, &mut reusable), up to
\* the request; save_option: what reusable.save() or save_as(name) gave.
SaveCall(entry, morphism, save_option) ==
    /\ pc = "idle"
    /\ calls < MaxCalls
    /\ calls' = calls + 1
    /\ method' = entry
    /\ reusable' = morphism
    /\ trace' = << >>
    /\ response' = None
    /\ IF save_option.some
       THEN /\ body' = save_option.val
            /\ pc' = "prepare_request"
            /\ outcome' = Pending
       ELSE /\ body' = << >>
            /\ Return(Err(ReusableCannotBeSaved))
    /\ UNCHANGED <<graph, query, requests, saved, compilerVars, builderVars>>

GraphSave(morphism, yields) == SaveCall("save", morphism, reuse_save(morphism, yields))

GraphSaveAs(name, morphism, yields) ==
    SaveCall("save_as", morphism, reuse_save_as(name, morphism, yields))

\* perform_request gives Ok(_) to save or save_as: set_saved, then Ok(())
ReadToEndSaved(response_body) ==
    /\ pc = "read_to_end"
    /\ method \in {"save", "save_as"}
    /\ trace' = trace \o <<"read_to_end", "set_saved">>
    /\ response' = Some(response_body)
    /\ saved' = set_saved(saved, reusable)
    /\ Return(Ok(<< >>))
    /\ UNCHANGED <<graph, reusable, method, query, body, requests, calls, compilerVars,
                   builderVars>>

\* The calls of one run are made with one Morphism under its names, and
\* with the Vertex that follows it.
NextSave ==
    \/ \E name \in MorphismNames : CompileReuse(name)
    \/ \E name \in MorphismNames, yields \in BOOLEAN : 
            GraphSave(Morphism(name, traversals), yields)
    \/ \E name, other \in MorphismNames, yields \in BOOLEAN :
            GraphSaveAs(other, Morphism(name, traversals), yields)
    \/ \E start \in Starts, name \in MorphismNames, final \in {Undefined, All} :
            Find(Vertex(start, <<Follow(unwrap(compile_reuse(name, traversals)))>>, final))
    \/ \E writer_ok \in BOOLEAN : PrepareRequest(writer_ok)
    \/ \E ok \in BOOLEAN : WriteStr(ok)
    \/ \E ok \in BOOLEAN : ReadResponse(ok)
    \/ ReadToEndFails
    \/ \E response_body \in Responses : ReadToEnd(response_body)
    \/ \E response_body \in Responses : ReadToEndSaved(response_body)

SpecSave == InitSave /\ [][NextSave]_vars

\* ------------------------------------------------- reading compiled text

OccursAt(text, pat, i) ==
    /\ i >= 1
    /\ i + Len(pat) - 1 <= Len(text)
    /\ \A j \in 1..Len(pat) : text[i + j - 1] = pat[j]

Occurs(text, pat) == \E i \in 1..(Len(text) + 1) : OccursAt(text, pat, i)

Count(text, pat) == Cardinality({i \in 1..Len(text) : OccursAt(text, pat, i)})

HasToken(text, token) == \E i \in 1..Len(text) : text[i] = token

\* "var <name> = <value>;" as the tests of path_compile.rs spell it
DeclText(name, value) == <<"var", " ">> \o name \o <<" ", "=", " ">> \o value \o <<";">>

DeclHead(name) == <<"var", " ">> \o name \o <<" ", "=", " ">>

\* The positions where a text refers to a reusable by name, and the name there.
RefPositions(text) == {i \in 1..Len(text) : text[i] \in {".Follow(", ".FollowR("}}

NameAt(text, i) ==
    LET close == CHOOSE k \in (i + 1)..Len(text) :
                    /\ text[k] = ")"
                    /\ \A j \in (i + 1)..(k - 1) : text[j] # ")"
    IN SubSeq(text, i + 1, close - 1)

Compiled == call.op # "none" /\ result.some

\* The compiled text as it is sent: the prefix followed by the value.
Text == result.val.prefix \o result.val.value

IsVertexCall == call.op \in {"compile_route", "compile_query"}

FollowSteps == {i \in DOMAIN traversals : traversals[i].t \in FollowKinds}
JoinSteps == {i \in DOMAIN traversals : traversals[i].t \in JoinKinds}
SubpathSteps ==
    {i \in DOMAIN traversals :
        /\ traversals[i].t \in {"Out", "OutP", "In", "InP", "Both", "BothP", "Has", "Save"}
        /\ traversals[i].p.k = "Route"}

\* ------------------------------------------------------------------ C1

\* The call has gone past find's checks: a request is due or under way.
Accepted == pc # "idle" \/ trace # << >>

\* C1: find on a Vertex with no Final returns QueryNotFinalized and runs no
\* stage of the request; the same Vertex with All is accepted and its
\* expectation is NodeSequence; whatever find accepts has a Final.
C1_FinalizationGating ==
    method = "find" =>
        /\ query.final = Undefined =>
                (outcome = Err(QueryNotFinalized) /\ ~Accepted)
        /\ query.final = All =>
                /\ Accepted
                /\ outcome # Err(QueryNotFinalized)
                /\ compile_query(query.start, query.traversals, query.final)
                        .val.expectation = "NodeSequence"
        /\ Accepted => query.final # Undefined

\* An unfinalized Vertex is refused on a Graph that has served a call before,
\* to which nothing is sent this time.
C1_Witness ==
    /\ method = "find"
    /\ query = Vertex(AnyNode, << >>, Undefined)
    /\ outcome = Err(QueryNotFinalized)
    /\ calls = 2
    /\ requests = 1
    /\ trace = << >>

\* ------------------------------------------------------------------ C2

\* C2: a builder on which a Final was applied keeps its path and its ready
\* flag whatever is called on it next.
C2_FinalizedIsFrozen == [][vertex.ready => vertex' = vertex]_vars

\* ------------------------------------------------------------------ C3

\* C3: find on a Vertex whose expectation is none of NodeSequence returns
\* ExpectationNotSupported with that expectation, no stage of the request run.
C3_UnsupportedShortCircuit ==
    LET expectation ==
            compile_query(query.start, query.traversals, query.final).val.expectation
    IN (method = "find" /\ expectation \notin {"NodeSequence", "Unknown"}) =>
            /\ outcome = Err(ExpectationNotSupported(expectation))
            /\ trace = << >>

\* ------------------------------------------------------------------ C4

\* C4: the expectation of a compiled query is decided by its Final alone:
\* All and GetLimit(n) give NodeSequence, ToArray NameSequence, ToValue
\* SingleNode, TagArray TagSequence, TagValue SingleTag, no Final Unknown,
\* whatever the start and the traversals are.
C4_ExpectationByFinal ==
    call.op = "compile_query" =>
        /\ result.some
        /\ LET f == call.final.f
               e == result.val.expectation
           IN /\ (f = "Undefined") = (e = "Unknown")
              /\ (f \in {"All", "GetLimit"}) = (e = "NodeSequence")
              /\ (f = "ToArray") = (e = "NameSequence")
              /\ (f = "ToValue") = (e = "SingleNode")
              /\ (f = "TagArray") = (e = "TagSequence")
              /\ (f = "TagValue") = (e = "SingleTag")

C4_Witness ==
    /\ call.op = "compile_query"
    /\ call.final = GetLimit(10)
    /\ call.start = Node(<<"foo">>)
    /\ Len(traversals) = 2
    /\ result.val.expectation = "NodeSequence"

\* ------------------------------------------------------------------ C5

\* C5: in every compiled artifact each reference to a reusable's name, in
\* the value or in a prefix entry, comes after a declaration of that name.
C5_DeclaredBeforeReference ==
    Compiled =>
        \A i \in RefPositions(Text) :
            \E j \in 1..(i - 1) : OccursAt(Text, DeclHead(NameAt(Text, i)), j)

\* ------------------------------------------------------------------ C6

C7_SubpathPrefixMerged ==
    Compiled =>
        \A i \in SubpathSteps :
            LET route == traversals[i].p.route
            IN /\ \E open \in {".Out(", ".In(", ".Both(", ".Has(", ".Save("} :
                        Occurs(result.val.value, <<open>> \o route.value)
               /\ Occurs(result.val.prefix, route.prefix)

\* ------------------------------------------------------------------ C8

JoinOpen(kind) == IF kind \in {"Intersect", "And"} THEN ".And(" ELSE ".Or("

\* What the text shows a Follow / FollowR step to have added to the prefix.
FollowEntry(i) ==
    traversals[i].r.prefix \o DeclText(traversals[i].r.name, traversals[i].r.value)

\* pat at a, then later at b or beyond, without overlap
Before(text, first, second) ==
    \E a \in 1..(Len(text) + 1) :
        /\ OccursAt(text, first, a)
        /\ \E b \in (a + Len(first))..(Len(text) + 1) : OccursAt(text, second, b)

\* C8 as stated: the prefix of a joined route R is placed before the prefix
\* entries that earlier steps of the builder contributed.
C8_JoinedPrefixFirst ==
    (Compiled /\ IsVertexCall) =>
        \A i \in JoinSteps :
            LET R == traversals[i].q
            IN /\ Occurs(result.val.value,
                         <<JoinOpen(traversals[i].t)>> \o R.value \o <<")">>)
               /\ Occurs(result.val.prefix, R.prefix)
               /\ \A k \in FollowSteps :
                    (k < i /\ R.prefix # << >>)
                        => Before(result.val.prefix, R.prefix, FollowEntry(k))

\* C8 amended: the step's text is And(<R.value>) or Or(<R.value>), R's whole
\* prefix is in the compiled prefix, and it stands in traversal order: after
\* the entries of the builder's earlier steps and before those of later ones.
C8_JoinedPrefixInOrder ==
    (Compiled /\ IsVertexCall) =>
        \A i \in JoinSteps :
            LET R == traversals[i].q
            IN /\ Occurs(result.val.value,
                         <<JoinOpen(traversals[i].t)>> \o R.value \o <<")">>)
               /\ Occurs(result.val.prefix, R.prefix)
               /\ \A k \in FollowSteps :
                    /\ k < i => Before(result.val.prefix, FollowEntry(k), R.prefix)
                    /\ k > i => Before(result.val.prefix, R.prefix, FollowEntry(k))
               /\ \A k \in JoinSteps :
                    k < i => Before(result.val.prefix, traversals[k].q.prefix, R.prefix)

C8_Witness ==
    /\ Compiled
    /\ call.op = "compile_query"
    /\ Len(traversals) = 2
    /\ traversals[1].t = "Follow"
    /\ traversals[2].t = "And" /\ traversals[2].q.prefix # << >>
    /\ Before(result.val.prefix, FollowEntry(1), traversals[2].q.prefix)
    /\ ~Before(result.val.prefix, traversals[2].q.prefix, FollowEntry(1))

\* ------------------------------------------------------------------ C9

\* The declarations that can stand in a prefix here.
Declarations == {DeclText(m.name, m.value) : m \in Reusables \cup {friendOfFriend}}

\* How often one step splices the declaration decl into the prefix: a Follow
\* of m once for m itself and once for each splice m was compiled with, a
\* join as often as the joined route was compiled with it.
Splices(traversal, decl) ==
    CASE traversal.t \in FollowKinds ->
            Count(traversal.r.prefix, decl)
                + (IF DeclText(traversal.r.name, traversal.r.value) = decl THEN 1 ELSE 0)
      [] traversal.t \in JoinKinds -> Count(traversal.q.prefix, decl)
      [] OTHER -> 0

RECURSIVE SumSplices(_, _)
SumSplices(ts, decl) ==
    IF ts = << >> THEN 0 ELSE Splices(Head(ts), decl) + SumSplices(Tail(ts), decl)

\* C9: declarations are not deduplicated: a declaration spliced k times
\* into the traversals, by Follow / FollowR or through joined routes, stands
\* k times in the compiled prefix.
C9_NotDeduplicated ==
    Compiled =>
        \A decl \in Declarations :
            Count(result.val.prefix, decl) = SumSplices(traversals, decl)

C9_Witness ==
    /\ Compiled
    /\ Len(traversals) = 2
    /\ traversals[1] = Follow(m_2)
    /\ traversals[2] = FollowR(m_1)
    /\ Count(result.val.prefix, DeclText(m_1.name, m_1.value)) = 2

\* ------------------------------------------------------------------ C11

C12_LimitIsPositive ==
    /\ (call.op = "compile_query" /\ call.final.f = "GetLimit" /\ call.final.n <= 0)
            => ~result.some
    /\ Compiled =>
            \A i \in 1..(Len(result.val.value) - 1) :
                result.val.value[i] = ".GetLimit("
                    => result.val.value[i + 1] \notin {"-", "0"}

\* ------------------------------------------------------------------ C13

EmptyList(sel) == sel.k \in {"Nodes", "Tags", "Predicates"} /\ sel.names = << >>

\* The selector of one empty identifier, and the Any* selector, of sel's kind.
SingleEmpty(sel) ==
    CASE sel.k = "Nodes" -> Node(<< >>)
      [] sel.k = "Tags" -> Tag(<< >>)
      [] sel.k = "Predicates" -> Predicate(<< >>)

AnyOf(sel) ==
    CASE sel.k = "Nodes" -> AnyNode
      [] sel.k = "Tags" -> AnyTag
      [] sel.k = "Predicates" -> AnyPredicate

SelectorFields(traversal) == DOMAIN traversal \cap {"p", "g", "n"}

\* The value the call under way gives for another start and traversal list.
ValueOf(start, ts) ==
    IF call.op = "compile_route"
    THEN compile_route(start, ts).val.value
    ELSE compile_query(start, ts, call.final).val.value

\* C13: when a start or a step holds Nodes, Tags or Predicates of an empty
\* list and the call compiles, the text is neither the text of the same call
\* with one empty identifier in that place nor that with the Any* selector.
C13_EmptyListIsExplicit ==
    (Compiled /\ IsVertexCall) =>
        /\ EmptyList(call.start) =>
                result.val.value \notin {ValueOf(SingleEmpty(call.start), traversals),
                                         ValueOf(AnyOf(call.start), traversals)}
        /\ \A i \in DOMAIN traversals : \A f \in SelectorFields(traversals[i]) :
                EmptyList(traversals[i][f]) =>
                    result.val.value \notin
                        {ValueOf(call.start,
                                 [traversals EXCEPT ![i][f] = SingleEmpty(@)]),
                         ValueOf(call.start,
                                 [traversals EXCEPT ![i][f] = AnyOf(@)])}

\* ------------------------------------------------------------------ C14

RECURSIVE QuoteEach(_)
\* The identifiers of a list, each in double quotes, joined by commas.
QuoteEach(names) ==
    IF names = << >> THEN << >>
    ELSE Quoted(Head(names))
            \o (IF Tail(names) = << >> THEN << >> ELSE <<",">> \o QuoteEach(Tail(names)))

NodeArgs(start) ==
    CASE start.k = "AnyNode" -> << >>
      [] start.k = "Node" -> Quoted(start.name)
      [] start.k = "Nodes" -> QuoteEach(start.names)

AnchorToken(start) == <<"g.V(">> \o NodeArgs(start) \o <<")">>

\* C14: the value of a route begins with g.V(<node-args>), node-args being
\* empty for AnyNode, the quoted identifier for Node and the quoted
\* identifiers joined by commas for Nodes; with no steps and no Final the
\* value is that token and the prefix is empty.
C14_AnchorToken ==
    (Compiled /\ IsVertexCall) =>
        /\ OccursAt(result.val.value, AnchorToken(call.start), 1)
        /\ (call.op = "compile_route" /\ traversals = << >>) =>
                /\ result.val.value = AnchorToken(call.start)
                /\ result.val.prefix = << >>

\* ------------------------------------------------------------------ C15

\* The tokens that open a parenthesis, and those of them that open a step.
StepOpeners ==
    {".Out(", ".In(", ".Both(", ".Is(", ".Has(", ".As(", ".Back(", ".Save(",
     ".And(", ".Or(", ".Follow(", ".FollowR("}

Openers == StepOpeners \cup {"g.V(", "g.M(", ".GetLimit("}

FinalTokens == {".All()", ".GetLimit(", ".ToArray()", ".ToValue()", ".TagArray()", ".TagValue()"}

RECURSIVE TopsFrom(_, _, _)
\* The step and final tokens of text from position i on that stand inside no
\* parenthesis, in order; depth parentheses are open at i.
TopsFrom(text, i, depth) ==
    IF i > Len(text) THEN << >>
    ELSE IF text[i] \in Openers
         THEN (IF depth = 0 /\ text[i] \in StepOpeners \cup FinalTokens
               THEN <<text[i]>> ELSE << >>) \o TopsFrom(text, i + 1, depth + 1)
         ELSE IF text[i] = ")" THEN TopsFrom(text, i + 1, depth - 1)
         ELSE (IF depth = 0 /\ text[i] \in FinalTokens THEN <<text[i]>> ELSE << >>)
                \o TopsFrom(text, i + 1, depth)

\* The token a step is to open with, and the token of a Final.
StepOpener(traversal) ==
    CASE traversal.t \in {"Out", "OutP", "OutT"} -> ".Out("
      [] traversal.t \in {"In", "InP", "InT"} -> ".In("
      [] traversal.t \in {"Both", "BothP", "BothT"} -> ".Both("
      [] traversal.t = "Is" -> ".Is("
      [] traversal.t = "Has" -> ".Has("
      [] traversal.t \in {"TagWith", "As"} -> ".As("
      [] traversal.t = "Back" -> ".Back("
      [] traversal.t = "Save" -> ".Save("
      [] traversal.t \in {"Intersect", "And"} -> ".And("
      [] traversal.t \in {"Union", "Or"} -> ".Or("
      [] traversal.t = "Follow" -> ".Follow("
      [] traversal.t = "FollowR" -> ".FollowR("

FinalOpener(final) ==
    CASE final.f = "Undefined" -> << >>
      [] final.f = "GetLimit" -> <<".GetLimit(">>
      [] OTHER -> <<"." \o final.f \o "()">>

CallFinal == IF call.op = "compile_query" THEN call.final ELSE Undefined

\* C15: the value is the anchor token, then one token per step in the order
\* of the traversal list, then the token of the Final if there is one; what
\* the steps add to the prefix stands there in the same order.
C15_BodyInStepOrder ==
    (Compiled /\ IsVertexCall) =>
        /\ OccursAt(result.val.value, parse_start(call.start), 1)
        /\ TopsFrom(result.val.value, 1, 0) =
                [i \in 1..Len(traversals) |-> StepOpener(traversals[i])]
                    \o FinalOpener(CallFinal)
        /\ \A i, j \in DOMAIN traversals :
                (i < j /\ prefix_of(traversals[i]) # << >>
                       /\ prefix_of(traversals[j]) # << >>) =>
                    Before(result.val.prefix,
                           prefix_of(traversals[i]), prefix_of(traversals[j]))

\* A query of two steps, a Follow and then a join over a route that itself
\* has steps, closed by GetLimit(5).
C15_Witness ==
    /\ call.op = "compile_query"
    /\ call.final = GetLimit(5)
    /\ Len(traversals) = 2
    /\ traversals[1] = Follow(m_2)
    /\ traversals[2] = Union(c_fof)
    /\ TopsFrom(result.val.value, 1, 0) = <<".Follow(", ".Or(", ".GetLimit(">>

\* ------------------------------------------------------------------ C16

\* The call was answered, by these bytes.
Answered == response.some
Answer == response.val

\* A JSON object whose values are all strings.
FieldMap(item) ==
    item.j = "object" /\ \A key \in DOMAIN item.fields : item.fields[key].j = "string"

C17_ErrorFieldFails ==
    (Answered /\ Answer.utf8 /\ Answer.doc.j = "envelope"
              /\ Answer.doc.error.j \notin {"absent", "null"})
        => outcome.st = "err"

\* ------------------------------------------------------------------ C18

\* What the decoder takes: an object whose result is absent, null or an
\* array of field-maps.
Decodes(doc) ==
    /\ doc.j = "envelope"
    /\ \/ doc.result.j \in {"absent", "null"}
       \/ /\ doc.result.j = "array"
          /\ \A i \in DOMAIN doc.result.items : FieldMap(doc.result.items[i])

\* C18: bytes that are not UTF-8 fail the call with ResponseParseFailed with
\* no JSON decoding tried; UTF-8 text the decoder does not take fails it with
\* DecodingFailed carrying that text; neither returns a list of nodes.
C18_MalformedAnswerFails ==
    Answered =>
        /\ ~Answer.utf8 =>
                /\ outcome = Err(ResponseParseFailed)
                /\ \A i \in DOMAIN trace : trace[i] # "json_decode"
        /\ (Answer.utf8 /\ ~Decodes(Answer.doc)) =>
                /\ outcome = Err(DecodingFailed(Answer.doc))
                /\ trace[Len(trace)] = "json_decode"

\* Bytes that are not UTF-8 though they would spell a result of one node.
C18_Witness ==
    /\ Answered
    /\ Answer = Bytes(FALSE, Envelope(JArray(<<NodeA>>), Absent))
    /\ outcome = Err(ResponseParseFailed)
    /\ method = "find"

\* ------------------------------------------------------------------ C19

\* The requests the call under way, or returned last, has written.
Sent == Cardinality({i \in DOMAIN trace : trace[i] = "write_str"})

Returned == pc = "idle" /\ method # "none"

\* C19 as stated: a call writes at most one request, and exactly one when
\* the query was accepted.
C19_OnePerAcceptedCall ==
    /\ Sent <= 1
    /\ (Returned /\ Accepted) => Sent = 1

\* C19 amended: a call writes at most one request: none when prepare_request
\* fails, exactly one when it succeeds; a call that failed has written no
\* second one, and a Graph has written no more requests than it served calls.
C19_AtMostOnePerCall ==
    /\ Sent <= 1
    /\ requests <= calls
    /\ (Returned /\ Accepted) => ((Sent = 1) = (Len(trace) >= 2))
    /\ (Returned /\ Accepted /\ Len(trace) = 1) => outcome.st = "err"

\* The second call on a Graph failed on reading the response, one request
\* written by each call.
C19_Witness ==
    /\ Returned
    /\ calls = 2
    /\ requests = 2
    /\ trace = <<"prepare_request", "write_str", "read_response">>
    /\ outcome = Err(RequestFailed(body))

\* ------------------------------------------------------------------ C20

\* C20: a Graph holds an address that parses, with a port from 1 to 65535.
C20_AddressValidated ==
    /\ url_parses(graph)
    /\ graph.port \in 1..MaxPort

\* ------------------------------------------------------------------ C21

StartedText(head, nodes, tail) ==
    <<head, ".", "Vertex(">>
        \o (IF nodes.k = "Node" THEN Quoted(nodes.name) ELSE << >>)
        \o <<")", ".", tail>>

\* What the compile call of this step returned.
Got == compiled'[Len(compiled')]

Compiles == Len(compiled') > Len(compiled)

CarriesReusable == Sent >= 1 /\ HasToken(body, "g.M(")

\* Every M() anchor of the text opens the value of a var declaration.
OnlyDeclared(text) ==
    \A i \in 1..Len(text) :
        text[i] = "g.M(" =>
            \E name \in MorphismNames :
                OccursAt(text, DeclHead(name), i - Len(DeclHead(name)))

CompiledAsFragment ==
    call.op = "compile_reuse" =>
        /\ result.some
        /\ DOMAIN result.val = {"name", "prefix", "value"}
        /\ result.val.name = call.name
        /\ result.val.value = <<"g.M(", ")">> \o parse_traversals(traversals)
        /\ \A token \in FinalTokens : ~HasToken(result.val.value, token)

SaveUnderWay == method \in {"save", "save_as"} /\ pc # "idle"
SaveCalled == pc = "idle" /\ calls' = calls + 1 /\ method' \in {"save", "save_as"}

Recompiled(ts) ==
    CASE call.op = "compile_reuse" -> compile_reuse(call.name, ts)
      [] call.op = "compile_route" -> compile_route(call.start, ts)
      [] call.op = "compile_query" -> compile_query(call.start, ts, call.final)
      [] call.op = "compile_path" -> compile_path(ts)

IsCompileCall ==
    call.op \in {"compile_reuse", "compile_route", "compile_query", "compile_path"}

TwoArguments(traversal) ==
    CASE traversal.t = "OutP" -> Out(traversal.p, AnyTag)
      [] traversal.t = "OutT" -> Out(AnyPredicate, traversal.g)
      [] traversal.t = "InP" -> In(traversal.p, AnyTag)
      [] traversal.t = "InT" -> In(AnyPredicate, traversal.g)
      [] traversal.t = "BothP" -> Both(traversal.p, AnyTag)
      [] traversal.t = "BothT" -> Both(AnyPredicate, traversal.g)
      [] OTHER -> traversal

C24_ShortFormIsAny ==
    IsCompileCall =>
        result = Recompiled([i \in DOMAIN traversals |-> TwoArguments(traversals[i])])

C24_Witness ==
    /\ call.op = "compile_query"
    /\ call.final = All
    /\ traversals = <<InT(Tags(<<<<"a">>, <<"b">>>>)), OutP(Predicate(follows))>>
    /\ result.val.value
        = <<"g.V(", ")", ".In(", "null", ",", "[", Q, "a", Q, ",", Q, "b", Q, "]", ")",
            ".Out(", Q, "follows", Q, ")", ".All()">>

\* ---------------------------------------------------------------------------
\* C25: the two names of a step compile alike: Intersect as And, Union as Or
\* and TagWith as As give the same prefix and the same body.

OtherName(traversal) ==
    CASE traversal.t = "Intersect" -> And(traversal.q)
      [] traversal.t = "And" -> Intersect(traversal.q)
      [] traversal.t = "Union" -> Or(traversal.q)
      [] traversal.t = "Or" -> Union(traversal.q)
      [] traversal.t = "TagWith" -> As(traversal.g)
      [] traversal.t = "As" -> TagWith(traversal.g)
      [] OTHER -> traversal

C25_AliasesCompileAlike ==
    IsCompileCall =>
        /\ result.val.prefix
            = Recompiled([i \in DOMAIN traversals |-> OtherName(traversals[i])]).val.prefix
        /\ result.val.value
            = Recompiled([i \in DOMAIN traversals |-> OtherName(traversals[i])]).val.value

C25_Witness ==
    /\ call.op = "compile_route"
    /\ call.start = AnyNode
    /\ traversals = <<Intersect(c_fof), TagWith(Tag(<<"next">>))>>
    /\ result.val.prefix = DeclText(friendOfFriend.name, friendOfFriend.value)
    /\ result.val.value
        = <<"g.V(", ")", ".And(">> \o c_fof.value \o <<")", ".As(", Q, "next", Q, ")">>

\* ---------------------------------------------------------------------------
\* C26: a route joined with a path by '+' reads as the one route built of
\* the steps of both: prefix followed by value is the same text, also when
\* steps of both sides bring declarations into the prefix.

OneRoute == unwrap(compile_route(call.start, traversals))

LeftSteps == SubSeq(traversals, 1, call.split)
RightSteps == SubSeq(traversals, call.split + 1, Len(traversals))

C26_AddIsOneRoute ==
    call.op = "add" => Text = OneRoute.prefix \o OneRoute.value

\* What does hold: the value is that of the one route, and so is the whole
\* text unless both sides bring a prefix.
C26_AddKeepsValue ==
    call.op = "add" =>
        /\ result.val.value = OneRoute.value
        /\ (parse_prefix(LeftSteps) = << >> \/ parse_prefix(RightSteps) = << >>) =>
                Text = OneRoute.prefix \o OneRoute.value

\* Follow(m_1) on the left and FollowR(m_2) on the right: the declarations of
\* the right side come out first.
C26_Reversed ==
    /\ call.op = "add"
    /\ call.split = 1
    /\ traversals = <<Follow(m_1), FollowR(m_2)>>
    /\ result.val.prefix = parse_prefix(<<FollowR(m_2)>>) \o parse_prefix(<<Follow(m_1)>>)
    /\ OneRoute.prefix = parse_prefix(<<Follow(m_1)>>) \o parse_prefix(<<FollowR(m_2)>>)
    /\ Text # OneRoute.prefix \o OneRoute.value

\* ---------------------------------------------------------------------------
\* C27: a route joined in by And, Intersect, Or or Union carries no Final:
\* the text between the parentheses of an And or an Or holds no finalization
\* token, and a finalization token stands nowhere in a compiled body but at
\* its end, outside every parenthesis.

FinalPositions(text) == {i \in 1..Len(text) : text[i] \in FinalTokens}

\* Where the Final of the last call begins in the body it compiled.
FinalPlace == Len(result.val.value) - Len(parse_final(CallFinal)) + 1

C27_FinalOnlyOutermost ==
    (call.op \in {"compile_reuse", "compile_route", "compile_query"}) =>
        /\ \A i \in JoinSteps :
                /\ DOMAIN traversals[i].q = {"prefix", "value"}
                /\ FinalPositions(traversals[i].q.value) = {}
        /\ FinalPositions(result.val.value)
                = IF CallFinal = Undefined THEN {} ELSE {FinalPlace}
        /\ CallFinal # Undefined =>
                \E tops \in {TopsFrom(result.val.value, 1, 0)} :
                    tops[Len(tops)] = result.val.value[FinalPlace]

C27_Witness ==
    /\ call.op = "compile_query"
    /\ call.final = GetLimit(10)
    /\ Len(traversals) = 2
    /\ traversals[1] = And(c_fof)
    /\ traversals[2] = Union(v_1)
    /\ FinalPositions(result.val.value) = {Len(result.val.value) - 3}

\* ---------------------------------------------------------------------------
\* C30: a query compiles to what its route compiles to, and the Final: with
\* Final::Undefined the prefix and the body are those of compile_route and
\* the expectation is Unknown; with any other Final the prefix is the same
\* and the body is the route's body followed by one finalization token.

RouteOfCall == unwrap(compile_route(call.start, traversals))

\* What the compiled query holds after the body of its route.
AfterRoute ==
    SubSeq(result.val.value, Len(RouteOfCall.value) + 1, Len(result.val.value))

C30_QueryIsRouteThenFinal ==
    call.op = "compile_query" =>
        /\ result.val.prefix = RouteOfCall.prefix
        /\ Len(result.val.value) >= Len(RouteOfCall.value)
        /\ SubSeq(result.val.value, 1, Len(RouteOfCall.value)) = RouteOfCall.value
        /\ call.final = Undefined =>
                /\ AfterRoute = << >>
                /\ result.val.expectation = "Unknown"
        /\ call.final # Undefined =>
                /\ FinalPositions(AfterRoute) = {1}
                /\ <<AfterRoute[1]>> = FinalOpener(call.final)
                /\ IF call.final.f = "GetLimit"
                   THEN Tail(AfterRoute) = ToDecimal(call.final.n) \o <<")">>
                   ELSE Tail(AfterRoute) = << >>

C30_Witness ==
    /\ call.op = "compile_query"
    /\ call.final = GetLimit(5)
    /\ call.start = Node(<<"foo">>)
    /\ traversals = <<Follow(m_2)>>
    /\ result.val.prefix = m_2.prefix \o DeclText(m_2.name, m_2.value)
    /\ AfterRoute = <<".GetLimit(", "5", ")">>

\* ---------------------------------------------------------------------------
\* C29: exec and find run their stages in one order: the request is prepared
\* from the kept address, the body written, the response read, read to its
\* end, and decoded. The first stage that fails returns its error (InvalidUrl
\* or MalformedRequest from the preparation, RequestFailed with the body of
\* the request from writing and reading) and no stage runs after it; nodes
\* are returned only when every stage has run and succeeded.

FullStages ==
    <<"prepare_request", "write_str", "read_response", "read_to_end", "decode_nodes",
      "from_utf8", "json_decode">>

IsPrefix(s, t) == Len(s) <= Len(t) /\ SubSeq(t, 1, Len(s)) = s

\* The error a returned call gave is the error of the last stage it ran.
ErrorOfLastStage ==
    CASE outcome.err.e = "InvalidUrl" ->
            /\ trace = <<"prepare_request">>
            /\ ~url_parses(graph)
            /\ outcome.err = InvalidUrl(graph)
      [] outcome.err.e = "MalformedRequest" ->
            /\ trace = <<"prepare_request">>
            /\ url_parses(graph)
            /\ outcome.err = MalformedRequest(graph)
      [] outcome.err.e = "RequestFailed" ->
            /\ Len(trace) \in 2..4
            /\ outcome.err = RequestFailed(body)
            /\ response = None
      [] outcome.err.e = "ResponseParseFailed" ->
            /\ Len(trace) = 6
            /\ response.some
            /\ ~response.val.utf8
      [] outcome.err.e = "DecodingFailed" ->
            /\ trace = FullStages
            /\ response.some
            /\ outcome = decode_nodes(response.val)
      [] OTHER -> trace = << >>

StagesSoFar ==
    method \in {"find", "exec"} =>
        /\ IsPrefix(trace, FullStages)
        /\ (trace # << >> /\ ~url_parses(graph)) => outcome = Err(InvalidUrl(graph))
        /\ pc # "idle" => outcome = Pending /\ pc = FullStages[Len(trace) + 1]
        /\ (pc = "idle" /\ outcome.st = "err") => ErrorOfLastStage
        /\ (pc = "idle" /\ outcome.st = "ok") =>
                /\ trace = FullStages
                /\ response.some
                /\ outcome = decode_nodes(response.val)

C29_StagesInOrder ==
    [][/\ StagesSoFar'
       /\ trace' # trace =>
            \/ pc = "idle" /\ trace' = << >>
            \/ /\ pc # "idle"
               /\ outcome = Pending
               /\ IsPrefix(trace, trace')
               /\ trace'[Len(trace) + 1] = pc]_vars

C29_Witness ==
    /\ method = "exec"
    /\ pc = "idle"
    /\ trace = <<"prepare_request", "write_str", "read_response">>
    /\ outcome = Err(RequestFailed(body))
    /\ requests = 2

====
